---- MODULE Spec2Model ----
(***************************************************************************)
(* A model of json-stat: the backtracking JSON grammar of src/parser.rs    *)
(* (combinators over a JsonFragment), the facade single_json, and the      *)
(* statistics aggregator of src/sniffer.rs.                                *)
(*                                                                         *)
(* A text is a sequence of characters; a character is a one-element string *)
(* (the non-ASCII character U+00E9 is written "U+00E9").  A Rust           *)
(* Result<JsonFragment, JsonFragment> is a record [st, frag] with st "Ok"  *)
(* or "Err"; st = "Panic" stands for a panic unwinding through the call.   *)
(***************************************************************************)
EXTENDS Integers, Sequences, FiniteSets, TLC

VARIABLES
    file, pc, frag, result,     \* one call of single_json
    numbers, fed,               \* one JsonNumbersStats and the numbers added to it
    profile, before, folded,    \* an aggregate, its value before the last merge,
                                \* and the values folded into it
    files, should_stat, printed \* main: the files still to visit, the subcommand,
                                \* and the kinds of the lines printed

parserVars == <<file, pc, frag, result>>

trackerVars == <<numbers, fed>>

snifferVars == <<profile, before, folded>>

mainVars == <<files, should_stat, printed>>

vars == <<file, pc, frag, result, numbers, fed, profile, before, folded,
          files, should_stat, printed>>

-----------------------------------------------------------------------------
(* Bounds of the model.                                                    *)

\* A document is the concatenation of at most MaxPieces pieces of one family.
MaxPieces == 4

\* The tracker is fed distinct numbers among 1..MaxNumber.
MaxNumber == 12

\* An array folded into an aggregate has at most MaxElements elements.
MaxElements == 2

\* At most MaxFolds values are folded into one aggregate.
MaxFolds == 2

\* A run of main is given at most MaxFiles files.
MaxFiles == 3

-----------------------------------------------------------------------------
(* Characters.                                                             *)

QUOTE == "\""

BSLASH == "\\"

EACUTE == "U+00E9"

NonzeroDigits == {"1", "2", "3", "4", "5", "6", "7", "8", "9"}

Digits == NonzeroDigits \cup {"0"}

\* The number of bytes of the character's UTF-8 encoding.
len_utf8(c) == IF c = EACUTE THEN 2 ELSE 1

to_ascii_lowercase(c) ==
    CASE c = "A" -> "a" [] c = "B" -> "b" [] c = "C" -> "c"
      [] c = "D" -> "d" [] c = "E" -> "e" [] c = "F" -> "f"
      [] OTHER -> c

to_ascii_uppercase(c) ==
    CASE c = "a" -> "A" [] c = "b" -> "B" [] c = "c" -> "C"
      [] c = "d" -> "D" [] c = "e" -> "E" [] c = "f" -> "F"
      [] OTHER -> c

DigitVal(c) ==
    CASE c = "0" -> 0 [] c = "1" -> 1 [] c = "2" -> 2 [] c = "3" -> 3
      [] c = "4" -> 4 [] c = "5" -> 5 [] c = "6" -> 6 [] c = "7" -> 7
      [] c = "8" -> 8 [] c = "9" -> 9

-----------------------------------------------------------------------------
(* f64 and str::parse::<f64>.  A finite float is mant * 10^exp with mant   *)
(* free of trailing zeros (zero is mant 0, exp 0), so two literals of the  *)
(* same mathematical value give equal records.                             *)

F64Fin(m, e) == [k |-> "fin", mant |-> m, exp |-> e]

F64Inf(sign) == [k |-> "inf", mant |-> sign, exp |-> 0]

F64NaN == [k |-> "nan", mant |-> 0, exp |-> 0]

RECURSIVE F64Norm(_, _)
F64Norm(m, e) ==
    IF m = 0 THEN F64Fin(0, 0)
    ELSE IF m % 10 = 0 THEN F64Norm(m \div 10, e + 1)
    ELSE F64Fin(m, e)

RECURSIVE NumDigits(_)
NumDigits(m) == IF m < 10 THEN 1 ELSE 1 + NumDigits(m \div 10)

\* The largest and smallest decimal exponents of a leading digit that f64 holds.
F64MaxExp10 == 308

F64MinExp10 == -324

\* Rounding to the f64 range: beyond it the parse gives infinity or zero.
F64Round(sign, m, e) ==
    LET n == F64Norm(m, e)
        lead == NumDigits(n.mant) - 1 + n.exp
    IN  IF n.mant = 0 THEN n
        ELSE IF lead > F64MaxExp10 THEN F64Inf(sign)
        ELSE IF lead < F64MinExp10 THEN F64Fin(0, 0)
        ELSE F64Fin(sign * n.mant, n.exp)

\* The longest prefix of s made of digits.
RECURSIVE DigitRun(_)
DigitRun(s) ==
    IF s # <<>> /\ Head(s) \in Digits THEN <<Head(s)>> \o DigitRun(Tail(s))
    ELSE <<>>

RECURSIVE DigitsValue(_, _)
DigitsValue(s, acc) ==
    IF s = <<>> THEN acc ELSE DigitsValue(Tail(s), acc * 10 + DigitVal(Head(s)))

Drop(s, n) == SubSeq(s, n + 1, Len(s))

LowerSeq(s) == [i \in 1..Len(s) |-> to_ascii_lowercase(
                   CASE s[i] = "I" -> "i" [] s[i] = "N" -> "n" [] s[i] = "T" -> "t"
                     [] s[i] = "Y" -> "y" [] OTHER -> s[i])]

F64Parsed(num) == [ok |-> TRUE, num |-> num]

F64Invalid == [ok |-> FALSE, num |-> F64NaN]

\* Exp ::= 'e' Sign? Digit+, after the 'e': r3 is all that is left of the text.
F64ExpDigits(sign, ip, fp, eneg, r4) ==
    IF r4 # <<>> /\ DigitRun(r4) = r4
    THEN F64Parsed(F64Round(sign, DigitsValue(ip \o fp, 0),
             (IF eneg THEN -DigitsValue(r4, 0) ELSE DigitsValue(r4, 0)) - Len(fp)))
    ELSE F64Invalid

F64Exp(sign, ip, fp, r3) ==
    IF r3 # <<>> /\ Head(r3) \in {"+", "-"}
    THEN F64ExpDigits(sign, ip, fp, Head(r3) = "-", Tail(r3))
    ELSE F64ExpDigits(sign, ip, fp, FALSE, r3)

\* Number ::= (Digit+ | Digit+ '.' Digit* | Digit* '.' Digit+) Exp?, after the
\* integer digits ip and the fraction digits fp.
F64AfterDigits(sign, ip, fp, r2) ==
    IF Len(ip) + Len(fp) = 0 THEN F64Invalid
    ELSE IF r2 = <<>> THEN F64Parsed(F64Round(sign, DigitsValue(ip \o fp, 0), -Len(fp)))
    ELSE IF Head(r2) \in {"e", "E"} THEN F64Exp(sign, ip, fp, Tail(r2))
    ELSE F64Invalid

F64AfterInteger(sign, ip, r1) ==
    IF r1 # <<>> /\ Head(r1) = "."
    THEN F64AfterDigits(sign, ip, DigitRun(Tail(r1)),
                        Drop(Tail(r1), Len(DigitRun(Tail(r1)))))
    ELSE F64AfterDigits(sign, ip, <<>>, r1)

F64Unsigned(sign, body) ==
    IF LowerSeq(body) \in {<<"i", "n", "f">>, <<"i", "n", "f", "i", "n", "i", "t", "y">>}
    THEN F64Parsed(F64Inf(sign))
    ELSE IF LowerSeq(body) = <<"n", "a", "n">> THEN F64Parsed(F64NaN)
    ELSE F64AfterInteger(sign, DigitRun(body), Drop(body, Len(DigitRun(body))))

\* <f64 as FromStr>::from_str: Sign? ('inf' | 'infinity' | 'nan' | Number),
\* letters in either case, nothing before or after.
ParseF64(raw) ==
    IF raw # <<>> /\ Head(raw) \in {"+", "-"}
    THEN F64Unsigned(IF Head(raw) = "-" THEN -1 ELSE 1, Tail(raw))
    ELSE F64Unsigned(1, raw)

-----------------------------------------------------------------------------
(* JsonValue.                                                              *)

JString(s) == [t |-> "STRING", s |-> s]

JNumber(n) == [t |-> "NUMBER", num |-> n]

JObject(m) == [t |-> "OBJECT", m |-> m]

JArray(a) == [t |-> "ARRAY", a |-> a]

JTrue == [t |-> "TRUE"]

JFalse == [t |-> "FALSE"]

JNull == [t |-> "NULL"]

JKeyValue(k, v) == [t |-> "KEYVALUE", k |-> k, v |-> v]

\* HashMap::new and HashMap::insert, a map being a function on its keys.
EmptyMap == [k \in {} |-> JNull]

MapInsert(m, k, v) == [x \in DOMAIN m \cup {k} |-> IF x = k THEN v ELSE m[x]]

-----------------------------------------------------------------------------
(* JsonFragment and the Result combinators.                                *)

JsonFragment(stream, raw, value) == [stream |-> stream, raw |-> raw, value |-> value]

Ok(f) == [st |-> "Ok", frag |-> f]

Err(f) == [st |-> "Err", frag |-> f]

Panic(f) == [st |-> "Panic", frag |-> f]

\* &frag.stream[1..] panics unless byte 1 is a character boundary.
accept_common(f, expected, should_ignore) ==
    IF f.stream # <<>> /\ Head(f.stream) = expected
    THEN IF len_utf8(expected) # 1 THEN Panic(f)
         ELSE Ok(JsonFragment(Tail(f.stream),
                              IF should_ignore THEN f.raw ELSE Append(f.raw, expected),
                              f.value))
    ELSE Err(f)

accept(f, expected) == accept_common(f, expected, FALSE)

accept_delimiter(f, expected) == accept_common(f, expected, TRUE)

just_accept(f) == Ok(f)

\* r.and_then(accept_cb(expected))
and_then_accept(r, expected) == IF r.st = "Ok" THEN accept(r.frag, expected) ELSE r

\* r.or_else(accept_cb(expected))
or_else_accept(r, expected) == IF r.st = "Err" THEN accept(r.frag, expected) ELSE r

\* r.and_then(accept_delimiter_cb(expected))
and_then_accept_delimiter(r, expected) ==
    IF r.st = "Ok" THEN accept_delimiter(r.frag, expected) ELSE r

\* r.or_else(accept_delimiter_cb(expected))
or_else_accept_delimiter(r, expected) ==
    IF r.st = "Err" THEN accept_delimiter(r.frag, expected) ELSE r

\* r.or_else(just_accept)
or_else_just_accept(r) == IF r.st = "Err" THEN just_accept(r.frag) ELSE r

accept_ignoring_case(f, expected) ==
    or_else_accept(accept(f, to_ascii_lowercase(expected)), to_ascii_uppercase(expected))

\* r.or_else(accept_ignoring_case_cb(expected))
or_else_accept_ignoring_case(r, expected) ==
    IF r.st = "Err" THEN accept_ignoring_case(r.frag, expected) ELSE r

accept_whitespace(f) ==
    or_else_just_accept(
        or_else_accept_delimiter(
            or_else_accept_delimiter(
                or_else_accept_delimiter(accept_delimiter(f, " "), "\n"),
                "\r"),
            "\t"))

\* r.and_then(accept_whitespace)
and_then_accept_whitespace(r) == IF r.st = "Ok" THEN accept_whitespace(r.frag) ELSE r

\* let r_frag = <chain>?; Ok(JsonFragment { stream: r_frag.stream, raw: vec![], value })
Built(r, value) ==
    IF r.st = "Ok" THEN Ok(JsonFragment(r.frag.stream, <<>>, value)) ELSE r

accept_true(f) ==
    Built(and_then_accept(and_then_accept(and_then_accept(accept(f, "t"), "r"), "u"), "e"),
          JTrue)

accept_false(f) ==
    Built(and_then_accept(and_then_accept(and_then_accept(and_then_accept(
              accept(f, "f"), "a"), "l"), "s"), "e"),
          JFalse)

accept_null(f) ==
    Built(and_then_accept(and_then_accept(and_then_accept(accept(f, "n"), "u"), "l"), "l"),
          JNull)

\* accept '1', or else '2', ..., or else '9': the one that can match is the
\* stream's next character.
accept_nonzero(f) ==
    IF f.stream # <<>> /\ Head(f.stream) \in NonzeroDigits
    THEN accept(f, Head(f.stream))
    ELSE Err(f)

accept_digit(f) == or_else_accept(accept_nonzero(f), "0")

RECURSIVE accept_digits(_)

\* if digit.is_err() { return digit; } digit.and_then(accept_digits).or_else(just_accept)
more_digits(digit) ==
    IF digit.st # "Ok" THEN digit ELSE or_else_just_accept(accept_digits(digit.frag))

accept_digits(f) == more_digits(accept_digit(f))

\* r.and_then(accept_digits)
and_then_accept_digits(r) == IF r.st = "Ok" THEN accept_digits(r.frag) ELSE r

\* r.and_then(|r_frag| accept(r_frag, '+').or_else(accept_cb('-')).or_else(just_accept))
and_then_accept_sign(r) ==
    IF r.st = "Ok" THEN or_else_just_accept(or_else_accept(accept(r.frag, "+"), "-")) ELSE r

\* accept_exponent without the optional sign after the 'e'.
accept_exponent_unsigned(f) == and_then_accept_digits(accept_ignoring_case(f, "e"))

accept_exponent(f) ==
    and_then_accept_digits(and_then_accept_sign(accept_ignoring_case(f, "e")))

\* r.and_then(accept_exponent)
and_then_accept_exponent(r) == IF r.st = "Ok" THEN accept_exponent(r.frag) ELSE r

accept_fraction(f) == and_then_accept_digits(accept(f, "."))

\* r.or_else(|r_frag| accept_nonzero(r_frag).and_then(accept_digits).or_else(just_accept))
or_else_nonzero_digits(r) ==
    IF r.st = "Err"
    THEN or_else_just_accept(and_then_accept_digits(accept_nonzero(r.frag)))
    ELSE r

accept_integer(f) ==
    or_else_nonzero_digits(and_then_accept(or_else_just_accept(accept(f, "-")), "0"))

\* accept_fraction(frag_integer).or_else(just_accept).and_then(accept_exponent)
\*     .or_else(just_accept), frag_integer being accept_integer(..)?
fraction_and_exponent(frag_integer) ==
    IF frag_integer.st = "Ok"
    THEN or_else_just_accept(and_then_accept_exponent(
             or_else_just_accept(accept_fraction(frag_integer.frag))))
    ELSE frag_integer

\* match <raw>.parse::<f64>() { Ok(number) => Ok(..), Err(_) => Err(frag) }
match_parse_f64(f, stream, parsed) ==
    IF parsed.ok THEN Ok(JsonFragment(stream, <<>>, JNumber(parsed.num))) ELSE Err(f)

number_of(f, frag_number) ==
    IF frag_number.st # "Ok" THEN frag_number
    ELSE match_parse_f64(f, frag_number.frag.stream, ParseF64(frag_number.frag.raw))

accept_number(f) == number_of(f, fraction_and_exponent(accept_integer(f)))

accept_hex(f) ==
    or_else_accept_ignoring_case(or_else_accept_ignoring_case(
        or_else_accept_ignoring_case(or_else_accept_ignoring_case(
            or_else_accept_ignoring_case(or_else_accept_ignoring_case(
                accept_digit(f), "a"), "b"), "c"), "d"), "e"), "f")

\* r.and_then(accept_hex)
and_then_accept_hex(r) == IF r.st = "Ok" THEN accept_hex(r.frag) ELSE r

accept_unicode(f) ==
    and_then_accept_hex(and_then_accept_hex(and_then_accept_hex(and_then_accept_hex(
        accept(f, "u")))))

\* r.or_else(accept_unicode)
or_else_accept_unicode(r) == IF r.st = "Err" THEN accept_unicode(r.frag) ELSE r

\* r.and_then(|r_frag| accept(r_frag, '\\').or_else(accept_cb('/')) ...)
and_then_accept_escaped(r) ==
    IF r.st = "Ok"
    THEN or_else_accept_unicode(
             or_else_accept(or_else_accept(or_else_accept(or_else_accept(
                 or_else_accept(or_else_accept(
                     accept(r.frag, BSLASH), "/"), "b"), "b"), "n"), "r"), "t"))
    ELSE r

accept_control_characters(f) == and_then_accept_escaped(accept(f, BSLASH))

accept_symbol(f) ==
    IF f.stream = <<>> THEN Err(f)
    ELSE IF Head(f.stream) # QUOTE /\ Head(f.stream) # BSLASH
    THEN accept(f, Head(f.stream))
    ELSE accept_control_characters(f)

RECURSIVE accept_symbols(_)

\* r.and_then(accept_symbols)
and_then_accept_symbols(r) == IF r.st = "Ok" THEN accept_symbols(r.frag) ELSE r

accept_symbols(f) == or_else_just_accept(and_then_accept_symbols(accept_symbol(f)))

\* let frag_string = <chain>?; Ok(JsonFragment { .., value: STRING(frag_string.raw) })
string_of(frag_string) ==
    IF frag_string.st = "Ok"
    THEN Ok(JsonFragment(frag_string.frag.stream, <<>>, JString(frag_string.frag.raw)))
    ELSE frag_string

accept_string(f) ==
    string_of(and_then_accept_delimiter(
        and_then_accept_symbols(accept_delimiter(f, QUOTE)), QUOTE))

\* r.and_then(accept_string)
and_then_accept_string(r) == IF r.st = "Ok" THEN accept_string(r.frag) ELSE r

RECURSIVE accept_value(_)
RECURSIVE accept_values(_)
RECURSIVE accept_key_values(_)

\* r.and_then(accept_values)
and_then_accept_values(r) == IF r.st = "Ok" THEN accept_values(r.frag) ELSE r

\* After let first_value = accept_value(..)?: arr.push(first_value.value), then
\* accept_delimiter(.., ',').and_then(accept_values).or_else(just_accept).
push_and_continue(arr, first_value) ==
    IF first_value.st # "Ok" THEN first_value
    ELSE or_else_just_accept(and_then_accept_values(
             accept_delimiter(
                 JsonFragment(first_value.frag.stream, <<>>,
                              JArray(Append(arr, first_value.frag.value))),
                 ",")))

accept_values(f) ==
    IF f.value.t = "ARRAY" THEN push_and_continue(f.value.a, accept_value(f)) ELSE Err(f)

\* r.and_then(|r_frag| accept_values(JsonFragment { .., value: ARRAY(vec![]) }))
and_then_array_values(r) ==
    IF r.st = "Ok"
    THEN accept_values(JsonFragment(r.frag.stream, r.frag.raw, JArray(<<>>)))
    ELSE r

accept_array(f) ==
    and_then_accept_delimiter(and_then_array_values(accept_delimiter(f, "[")), "]")

\* After let value_frag = accept_value(..)?: the KEYVALUE of the key and the value.
key_value_of(f, key_frag_value, value_frag) ==
    IF value_frag.st # "Ok" THEN value_frag
    ELSE IF key_frag_value.t = "STRING"
    THEN Ok(JsonFragment(value_frag.frag.stream, value_frag.frag.raw,
                JKeyValue(key_frag_value.s, value_frag.frag.value)))
    ELSE Err(f)

\* After let key_frag = <chain>?: the value, parsed with an empty raw and the
\* value the caller passed.
value_after_key(f, key_frag) ==
    IF key_frag.st # "Ok" THEN key_frag
    ELSE key_value_of(f, key_frag.frag.value,
             accept_value(JsonFragment(key_frag.frag.stream, <<>>, f.value)))

accept_key_value(f) ==
    value_after_key(f,
        and_then_accept_delimiter(
            and_then_accept_whitespace(and_then_accept_string(accept_whitespace(f))),
            ":"))

\* r.and_then(accept_key_values)
and_then_accept_key_values(r) == IF r.st = "Ok" THEN accept_key_values(r.frag) ELSE r

\* insert_and_continue without obj.insert: the fragment goes on with the KEYVALUE.
insert_and_continue_unpacked_never(f, first_key_value) ==
    IF first_key_value.st # "Ok" THEN first_key_value
    ELSE or_else_just_accept(and_then_accept_key_values(
             accept_delimiter(first_key_value.frag, ",")))

\* After let first_key_value = accept_key_value(..)?: obj.insert(key, *value), then
\* accept_delimiter(.., ',').and_then(accept_key_values).or_else(|r_frag| Ok(r_frag)).
insert_and_continue(f, first_key_value) ==
    IF first_key_value.st # "Ok" THEN first_key_value
    ELSE IF first_key_value.frag.value.t = "KEYVALUE"
    THEN or_else_just_accept(and_then_accept_key_values(
             accept_delimiter(
                 JsonFragment(first_key_value.frag.stream, first_key_value.frag.raw,
                     JObject(MapInsert(f.value.m, first_key_value.frag.value.k,
                                       first_key_value.frag.value.v))),
                 ",")))
    ELSE Err(f)

accept_key_values(f) ==
    IF f.value.t = "OBJECT" THEN insert_and_continue(f, accept_key_value(f)) ELSE Err(f)

\* r.and_then(|r_frag| accept_key_values(JsonFragment { .., value: OBJECT(HashMap::new()) }))
and_then_object_key_values(r) ==
    IF r.st = "Ok"
    THEN accept_key_values(JsonFragment(r.frag.stream, r.frag.raw, JObject(EmptyMap)))
    ELSE r

accept_object(f) ==
    and_then_accept_delimiter(and_then_object_key_values(accept_delimiter(f, "{")), "}")

or_else_accept_number(r) == IF r.st = "Err" THEN accept_number(r.frag) ELSE r

or_else_accept_object(r) == IF r.st = "Err" THEN accept_object(r.frag) ELSE r

or_else_accept_array(r) == IF r.st = "Err" THEN accept_array(r.frag) ELSE r

or_else_accept_true(r) == IF r.st = "Err" THEN accept_true(r.frag) ELSE r

or_else_accept_false(r) == IF r.st = "Err" THEN accept_false(r.frag) ELSE r

or_else_accept_null(r) == IF r.st = "Err" THEN accept_null(r.frag) ELSE r

accept_value(f) ==
    and_then_accept_whitespace(
        or_else_accept_null(or_else_accept_false(or_else_accept_true(
            or_else_accept_array(or_else_accept_object(or_else_accept_number(
                and_then_accept_string(accept_whitespace(f)))))))))

\* The result of single_json: Ok(Some(value)), Ok(None), Err(ParseError) or a panic.
Some(v) == [kind |-> "Some", value |-> v, row |-> 0, col |-> 0]

None == [kind |-> "None", value |-> JNull, row |-> 0, col |-> 0]

ParseError(row, col) == [kind |-> "ParseError", value |-> JNull, row |-> row, col |-> col]

Panicked == [kind |-> "Panic", value |-> JNull, row |-> 0, col |-> 0]

\* The fragment single_json starts the root rule with.
RootFragment(content) == JsonFragment(content, <<>>, JNull)

\* match accept_value(..) { Ok(frag) => Ok(Some(frag.value)), Err(_) => Ok(None) }
match_accept_value(r) ==
    CASE r.st = "Ok" -> Some(r.frag.value)
      [] r.st = "Err" -> None
      [] OTHER -> Panicked

single_json(f) ==
    IF f.readable THEN match_accept_value(accept_value(RootFragment(f.content)))
    ELSE ParseError(0, 0)

-----------------------------------------------------------------------------
(* f64 order and addition, for the numbers the sniffer is fed: finite      *)
(* decimals of small exponent, and the infinities.                         *)

RECURSIVE Pow10(_)
Pow10(n) == IF n = 0 THEN 1 ELSE 10 * Pow10(n - 1)

\* The finite float a as an integer multiple of 10^e, for e <= a.exp.
Scaled(a, e) == a.mant * Pow10(a.exp - e)

MinInt(a, b) == IF a < b THEN a ELSE b

\* a < b, neither NaN.
F64Less(a, b) ==
    IF a.k = "inf" THEN a.mant < 0 /\ ~(b.k = "inf" /\ b.mant < 0)
    ELSE IF b.k = "inf" THEN b.mant > 0
    ELSE LET e == MinInt(a.exp, b.exp) IN Scaled(a, e) < Scaled(b, e)

F64Add(a, b) ==
    IF a.k = "nan" \/ b.k = "nan" THEN F64NaN
    ELSE IF a.k = "inf" THEN IF b.k = "inf" /\ b.mant # a.mant THEN F64NaN ELSE a
    ELSE IF b.k = "inf" THEN b
    ELSE LET e == MinInt(a.exp, b.exp) IN F64Norm(Scaled(a, e) + Scaled(b, e), e)

\* The float of a small integer.
Num(i) == F64Norm(i, 0)

-----------------------------------------------------------------------------
(* src/sniffer.rs.  A BinaryHeap is the sequence of its entries in         *)
(* ascending order: pop takes the greatest entry in the heap's order, the  *)
(* last one of a BinaryHeap<NonNan> and the first one of a                 *)
(* BinaryHeap<Reverse<NonNan>>.  An Option is a sequence of length 0 or 1. *)
(* A panic sets the field panicked of the statistics being built, and the  *)
(* loops stop at it.                                                       *)

\* JSON_TYPES_NAMES[json_type(json)]
json_type_name(json) ==
    CASE json.t = "STRING" -> "string"
      [] json.t = "NUMBER" -> "number"
      [] json.t = "OBJECT" -> "object"
      [] json.t = "ARRAY" -> "array"
      [] json.t = "TRUE" -> "true"
      [] json.t = "FALSE" -> "false"
      [] json.t = "NULL" -> "null"
      [] json.t = "KEYVALUE" -> "key-value"

is_array_type(json) == json.t = "ARRAY"

is_object_type(json) == json.t = "OBJECT"

is_complex_type(json) == is_array_type(json) \/ is_object_type(json)

HeapPush(h, x) ==
    SelectSeq(h, LAMBDA y: ~F64Less(x, y)) \o <<x>> \o SelectSeq(h, LAMBDA y: F64Less(x, y))

\* BinaryHeap<NonNan>::pop
PopGreatest(h) == SubSeq(h, 1, Len(h) - 1)

\* BinaryHeap<Reverse<NonNan>>::pop
PopLeast(h) == Tail(h)

\* The capacity JsonComplexTypeStats::array and ::object give the tracker.
NumbersLimit == 10

JsonNumbersStats_new(limit) ==
    [limit |-> limit, minimums |-> <<>>, maximums |-> <<>>,
     sum |-> F64Fin(0, 0), number |-> 0, panicked |-> FALSE]

\* add popping only once a heap holds more than limit entries.
JsonNumbersStats_add_pops_late(self, number) ==
    IF number.k = "nan" THEN [self EXCEPT !.panicked = TRUE]
    ELSE [self EXCEPT
            !.minimums = HeapPush(IF Len(self.minimums) > self.limit
                                  THEN PopGreatest(self.minimums)
                                  ELSE self.minimums, number),
            !.maximums = HeapPush(IF Len(self.maximums) > self.limit
                                  THEN PopLeast(self.maximums)
                                  ELSE self.maximums, number),
            !.number = self.number + 1,
            !.sum = F64Add(self.sum, number)]

JsonNumbersStats_add(self, number) ==
    IF number.k = "nan" THEN [self EXCEPT !.panicked = TRUE]
    ELSE [self EXCEPT
            !.minimums = HeapPush(IF Len(self.minimums) = self.limit
                                  THEN PopGreatest(self.minimums)
                                  ELSE self.minimums, number),
            !.maximums = HeapPush(IF Len(self.maximums) = self.limit
                                  THEN PopLeast(self.maximums)
                                  ELSE self.maximums, number),
            !.number = self.number + 1,
            !.sum = F64Add(self.sum, number)]

JsonArrayStats(arrays, objects) ==
    [kind |-> "ARRAY", inner_arrays_stats |-> arrays, inner_objects_stats |-> objects]

JsonObjectStats(primitives, complex, nonobligatory) ==
    [kind |-> "OBJECT", primitives_keys |-> primitives, complex_stats |-> complex,
     nonobligatory |-> nonobligatory]

JsonComplexTypeStats_array ==
    [values_types |-> {}, numbers |-> JsonNumbersStats_new(NumbersLimit), strings |-> {},
     type_stats |-> JsonArrayStats(<<>>, <<>>), panicked |-> FALSE]

JsonComplexTypeStats_object ==
    [values_types |-> {}, numbers |-> JsonNumbersStats_new(NumbersLimit), strings |-> {},
     type_stats |-> JsonObjectStats(EmptyMap, EmptyMap, {}), panicked |-> FALSE]

stats_is_array_type(self) == self.type_stats.kind = "ARRAY"

stats_is_object_type(self) == self.type_stats.kind = "OBJECT"

merge_primitives_stats(self, value) ==
    LET added == IF value.t = "NUMBER" THEN JsonNumbersStats_add(self.numbers, value.num)
                 ELSE self.numbers
    IN  [self EXCEPT
            !.numbers = added,
            !.strings = IF value.t = "STRING" THEN @ \cup {value.s} ELSE @,
            !.panicked = @ \/ added.panicked]

is_complex_matches(self, value) ==
    \/ stats_is_array_type(self) /\ is_array_type(value)
    \/ stats_is_object_type(self) /\ is_object_type(value)

\* The keys of a HashMap in the order the loop visits them.
RECURSIVE KeyOrder(_)
KeyOrder(keys) ==
    IF keys = {} THEN <<>>
    ELSE LET k == CHOOSE x \in keys : TRUE IN <<k>> \o KeyOrder(keys \ {k})

RECURSIVE from_json(_)
RECURSIVE merge_stats(_, _)
RECURSIVE from_array_loop(_, _)
RECURSIVE from_object_loop(_, _, _)
RECURSIVE merge_as_array_loop(_, _)
RECURSIVE merge_as_object_loop(_, _, _)

\* Some(match previous { Some(prev) => prev.merge_stats(value), None => from_json(value) })
MergedOrNew(previous, value) ==
    IF previous = <<>> THEN from_json(value) ELSE merge_stats(previous[1], value)

\* merge_as_array_loop storing the sub-profile of an array element in
\* inner_objects_stats.
merge_as_array_loop_wrong_slot(acc, array) ==
    IF array = <<>> \/ acc.panicked THEN acc
    ELSE LET value == Head(array)
             stats == acc.stats
             new   == MergedOrNew(stats.inner_objects_stats, value)
         IN  IF is_complex_type(value)
             THEN merge_as_array_loop(
                      [stats |-> [stats EXCEPT !.inner_objects_stats = <<new>>],
                       panicked |-> new.panicked], Tail(array))
             ELSE merge_as_array_loop(acc, Tail(array))

\* for value in array { ... } of merge_as_array_stats, over (stats, panicked).
merge_as_array_loop(acc, array) ==
    IF array = <<>> \/ acc.panicked THEN acc
    ELSE LET value == Head(array)
             stats == acc.stats
             new   == IF is_array_type(value)
                      THEN MergedOrNew(stats.inner_arrays_stats, value)
                      ELSE MergedOrNew(stats.inner_objects_stats, value)
         IN  IF is_array_type(value)
             THEN merge_as_array_loop(
                      [stats |-> [stats EXCEPT !.inner_arrays_stats = <<new>>],
                       panicked |-> new.panicked], Tail(array))
             ELSE IF is_object_type(value)
             THEN merge_as_array_loop(
                      [stats |-> [stats EXCEPT !.inner_objects_stats = <<new>>],
                       panicked |-> new.panicked], Tail(array))
             ELSE merge_as_array_loop(acc, Tail(array))

\* assert!(is_array_type(&json_array)) fails on another value.
merge_as_array_stats(stats, json_array) ==
    IF ~is_array_type(json_array) THEN [stats |-> stats, panicked |-> TRUE]
    ELSE merge_as_array_loop([stats |-> stats, panicked |-> FALSE], json_array.a)

\* for (key_mold, value) in object { ... } of merge_as_object_stats.
merge_as_object_loop(acc, object, keys) ==
    IF keys = <<>> \/ acc.panicked THEN acc
    ELSE LET key_mold == Head(keys)
             value == object[key_mold]
             stats == acc.stats
             known == key_mold \in DOMAIN stats.complex_stats
             new   == IF known THEN merge_stats(stats.complex_stats[key_mold], value)
                      ELSE from_json(value)
             is_nonobligatory == key_mold \in DOMAIN stats.primitives_keys
             primitive_type == json_type_name(value)
         IN  IF is_complex_type(value)
             THEN merge_as_object_loop(
                      [stats |-> [stats EXCEPT
                           !.nonobligatory = IF known THEN @ \cup {key_mold} ELSE @,
                           !.complex_stats = MapInsert(@, key_mold, new)],
                       panicked |-> new.panicked], object, Tail(keys))
             ELSE merge_as_object_loop(
                      [stats |-> [stats EXCEPT
                           !.primitives_keys = MapInsert(@, key_mold,
                               IF is_nonobligatory THEN @[key_mold] \cup {primitive_type}
                               ELSE {primitive_type}),
                           !.nonobligatory = IF is_nonobligatory THEN @ \cup {key_mold} ELSE @],
                       panicked |-> FALSE], object, Tail(keys))

\* assert!(is_object_type(&json_object)) fails on another value.
merge_as_object_stats(stats, json_object) ==
    IF ~is_object_type(json_object) THEN [stats |-> stats, panicked |-> TRUE]
    ELSE merge_as_object_loop([stats |-> stats, panicked |-> FALSE],
                              json_object.m, KeyOrder(DOMAIN json_object.m))

merge_complex_stats(self, value) ==
    LET merged == IF self.type_stats.kind = "ARRAY"
                  THEN merge_as_array_stats(self.type_stats, value)
                  ELSE merge_as_object_stats(self.type_stats, value)
    IN  [self EXCEPT !.type_stats = merged.stats, !.panicked = @ \/ merged.panicked]

\* for (key, value) in object { ... } of from_object.
from_object_loop(stats, object, keys) ==
    IF keys = <<>> \/ stats.panicked THEN stats
    ELSE LET key == Head(keys)
             value == object[key]
             typed == [stats EXCEPT !.values_types = @ \cup {json_type_name(value)}]
             new   == IF key \in DOMAIN stats.type_stats.complex_stats
                      THEN merge_stats(stats.type_stats.complex_stats[key], value)
                      ELSE from_json(value)
             primitive_type == json_type_name(value)
         IN  IF is_complex_type(value)
             THEN from_object_loop(
                      [typed EXCEPT !.type_stats.complex_stats = MapInsert(@, key, new),
                                    !.panicked = new.panicked],
                      object, Tail(keys))
             ELSE from_object_loop(
                      merge_primitives_stats(
                          [typed EXCEPT !.type_stats.primitives_keys =
                               MapInsert(@, key,
                                   IF key \in DOMAIN @ THEN @[key] \cup {primitive_type}
                                   ELSE {primitive_type})],
                          value),
                      object, Tail(keys))

from_object(object) ==
    from_object_loop(JsonComplexTypeStats_object, object, KeyOrder(DOMAIN object))

\* for value in array { ... } of from_array.
from_array_loop(stats, array) ==
    IF array = <<>> \/ stats.panicked THEN stats
    ELSE LET value == Head(array)
             typed == [stats EXCEPT !.values_types = @ \cup {json_type_name(value)}]
             new   == IF is_object_type(value)
                      THEN MergedOrNew(stats.type_stats.inner_objects_stats, value)
                      ELSE MergedOrNew(stats.type_stats.inner_arrays_stats, value)
         IN  IF is_complex_type(value)
             THEN from_array_loop(
                      IF is_object_type(value)
                      THEN [typed EXCEPT !.type_stats.inner_objects_stats = <<new>>,
                                         !.panicked = new.panicked]
                      ELSE [typed EXCEPT !.type_stats.inner_arrays_stats = <<new>>,
                                         !.panicked = new.panicked],
                      Tail(array))
             ELSE from_array_loop(merge_primitives_stats(typed, value), Tail(array))

from_array(array) == from_array_loop(JsonComplexTypeStats_array, array)

merge_stats(self, value) ==
    IF is_complex_matches(self, value) THEN merge_complex_stats(self, value)
    ELSE merge_primitives_stats(
             [self EXCEPT !.values_types = @ \cup {json_type_name(value)}], value)

from_json(json) ==
    IF is_object_type(json) THEN from_object(json.m)
    ELSE IF is_array_type(json) THEN from_array(json.a)
    ELSE from_array(<<json>>)

-----------------------------------------------------------------------------
(* The documents the model parses.                                         *)

RECURSIVE TextsOf(_, _)
TextsOf(pieces, n) ==
    IF n = 0 THEN {<<>>}
    ELSE LET shorter == TextsOf(pieces, n - 1)
         IN  shorter \cup {p \o s : p \in pieces, s \in shorter}

StructurePieces ==
    { <<"[">>, <<"]">>, <<"{">>, <<"}">>, <<",">>, <<" ">>, <<"\n">>, <<"1">>,
      <<QUOTE, "a", QUOTE, ":">>, <<QUOTE, "b", QUOTE>> }

LiteralPieces ==
    { <<"t", "r", "u", "e">>, <<"f", "a", "l", "s", "e">>, <<"n", "u", "l", "l">>,
      <<"t">>, <<"n">>, <<"[">>, <<"]">>, <<",">>, <<QUOTE>>, <<"1">> }

StringPieces ==
    { <<QUOTE>>, <<BSLASH>>, <<"/">>, <<"b">>, <<"f">>, <<"n">>, <<"r">>, <<"t">>,
      <<"u", "0", "0", "A", "f">>, <<"u", "0", "0">>, <<"x">>, <<EACUTE>> }

NumberPieces == { <<"-">>, <<"0">>, <<"1">>, <<".">>, <<"e">>, <<"E">>, <<"+">>, <<"2">> }

ObjectPieces ==
    { <<"{">>, <<"}">>, <<",">>, <<QUOTE, "a", QUOTE, ":", "1">>, <<QUOTE, "b", QUOTE, ":">>,
      <<QUOTE, "b", QUOTE>>, <<"{", QUOTE, "a", QUOTE, ":", "1", "}">> }

NumeralPieces ==
    { <<"-">>, <<"0">>, <<"1">>, <<"1", "0">>, <<"0", "0">>, <<"1", "3">>, <<"4", "5">>,
      <<".", "1", "5">>, <<".", "1">>, <<"e", "-", "0", "5">>, <<"E", "+", "2">> }

\* The families of pieces documents are made of.
TextFamilies ==
    {StructurePieces, LiteralPieces, StringPieces, NumberPieces, ObjectPieces, NumeralPieces}

\* The documents of one family; the numerals have at most nine characters, so
\* that their digits fit the integers of the model.
FamilyTexts(pieces) ==
    {t \in TextsOf(pieces, MaxPieces) : pieces = NumeralPieces => Len(t) <= 9}

-----------------------------------------------------------------------------
(* One call of single_json on one file.                                    *)

NotRun == [st |-> "NotRun", frag |-> RootFragment(<<>>)]

ParserIdle ==
    /\ file = [readable |-> TRUE, content |-> <<>>]
    /\ pc = "idle"
    /\ frag = NotRun
    /\ result = None

TrackerIdle ==
    /\ numbers = JsonNumbersStats_new(NumbersLimit)
    /\ fed = {}

SnifferIdle ==
    /\ profile = <<>>
    /\ before = <<>>
    /\ folded = <<>>

MainIdle ==
    /\ files = <<>>
    /\ should_stat = FALSE
    /\ printed = <<>>

Init ==
    /\ \/ \E pieces \in TextFamilies : \E content \in FamilyTexts(pieces) :
              file = [readable |-> TRUE, content |-> content]
       \/ file = [readable |-> FALSE, content |-> <<>>]
    /\ pc = "start"
    /\ frag = NotRun
    /\ result = None
    /\ TrackerIdle
    /\ SnifferIdle
    /\ MainIdle

\* fs::read_to_string succeeds: the root rule runs over the content.
Parse ==
    /\ pc = "start"
    /\ file.readable
    /\ frag' = accept_value(RootFragment(file.content))
    /\ result' = match_accept_value(frag')
    /\ pc' = "done"
    /\ UNCHANGED <<file, trackerVars, snifferVars, mainVars>>

\* fs::read_to_string fails.
ReadFails ==
    /\ pc = "start"
    /\ ~file.readable
    /\ result' = single_json(file)
    /\ pc' = "done"
    /\ UNCHANGED <<file, frag, trackerVars, snifferVars, mainVars>>

Next == Parse \/ ReadFails

Spec == Init /\ [][Next]_vars

-----------------------------------------------------------------------------
(* One JsonNumbersStats of limit 10, fed distinct numbers in any order.    *)

InitNumbers == ParserIdle /\ TrackerIdle /\ SnifferIdle /\ MainIdle

Add(n) ==
    /\ n \notin fed
    /\ numbers' = JsonNumbersStats_add(numbers, Num(n))
    /\ fed' = fed \cup {n}
    /\ UNCHANGED <<parserVars, snifferVars, mainVars>>

NextNumbers == \E n \in 1..MaxNumber : Add(n)

SpecNumbers == InitNumbers /\ [][NextNumbers]_vars

-----------------------------------------------------------------------------
(* One aggregate, as main keeps it over the documents of a stat run: built *)
(* from the first value by from_json, every later value merged into it by  *)
(* merge_stats.                                                            *)

Key_a == <<"a">>

Key_b == <<"b">>

\* What an array holds and what a key maps to.
SniffLeaves ==
    { JNumber(Num(1)), JString(<<"x">>), JArray(<<JNumber(Num(2))>>),
      JObject(MapInsert(EmptyMap, Key_a, JNumber(Num(2)))) }

RECURSIVE SeqsUpTo(_, _)
SeqsUpTo(S, n) ==
    IF n = 0 THEN {<<>>}
    ELSE LET shorter == SeqsUpTo(S, n - 1)
         IN  shorter \cup {<<x>> \o q : x \in S, q \in {r \in shorter : Len(r) = n - 1}}

SniffArrays == {JArray(a) : a \in SeqsUpTo(SniffLeaves, MaxElements)}

SniffObjects ==
    {JObject(m) : m \in UNION {[K -> SniffLeaves] : K \in SUBSET {Key_a, Key_b}}}

SniffValues == SniffArrays \cup SniffObjects \cup {JNumber(Num(1)), JString(<<"x">>)}

InitSniffer == ParserIdle /\ TrackerIdle /\ SnifferIdle /\ MainIdle

\* None => sniffer::JsonComplexTypeStats::from_json(json)
FromJson(v) ==
    /\ profile = <<>>
    /\ profile' = <<from_json(v)>>
    /\ before' = <<>>
    /\ folded' = <<v>>
    /\ UNCHANGED <<parserVars, trackerVars, mainVars>>

\* Some(prev) => prev.merge_stats(json)
MergeStats(v) ==
    /\ profile # <<>>
    /\ ~profile[1].panicked
    /\ Len(folded) < MaxFolds
    /\ profile' = <<merge_stats(profile[1], v)>>
    /\ before' = profile
    /\ folded' = Append(folded, v)
    /\ UNCHANGED <<parserVars, trackerVars, mainVars>>

NextSniffer == \E v \in SniffValues : FromJson(v) \/ MergeStats(v)

SpecSniffer == InitSniffer /\ [][NextSniffer]_vars

-----------------------------------------------------------------------------
(* One run of main over its files: `check` or `stat`, one action per way   *)
(* an iteration of `for file in files` ends, and the report after the loop.*)
(* pc is "loop" while the loop runs, then "returned" (main returned        *)
(* Ok(())), "failed" (main returned Err) or "panicked".                    *)

\* The texts of the files of a run.
MainTexts ==
    { <<"[", "1", "]">>,
      <<"{", QUOTE, "a", QUOTE, ":", "1", "}">>,
      <<"[">>,
      <<QUOTE, EACUTE>>,
      <<QUOTE, "n", "a", "n">> }

MainFiles ==
    [readable : {TRUE}, content : MainTexts] \cup [readable : {FALSE}, content : {<<>>}]

InitMain ==
    /\ files \in SeqsUpTo(MainFiles, MaxFiles)
    /\ should_stat \in BOOLEAN
    /\ printed = <<>>
    /\ pc = "loop"
    /\ file = [readable |-> TRUE, content |-> <<>>]
    /\ frag = NotRun
    /\ result = None
    /\ TrackerIdle
    /\ SnifferIdle

\* for file in files { match parser::single_json(&file) ..: the next file is
\* taken off the list and parsed.
Visit ==
    /\ pc = "loop"
    /\ files # <<>>
    /\ file' = Head(files)
    /\ files' = Tail(files)
    /\ frag' = IF Head(files).readable THEN accept_value(RootFragment(Head(files).content))
               ELSE NotRun
    /\ result' = single_json(Head(files))
    /\ before' = profile
    /\ UNCHANGED <<trackerVars, should_stat>>

\* Err(error) => { println!(".. has error at .."); Err(..) }?: main returns the error.
FileUnreadable ==
    /\ Visit
    /\ result'.kind = "ParseError"
    /\ printed' = Append(printed, "has error")
    /\ pc' = "failed"
    /\ UNCHANGED <<profile, folded>>

\* The parser panics: the process ends, nothing is printed.
FilePanics ==
    /\ Visit
    /\ result'.kind = "Panic"
    /\ pc' = "panicked"
    /\ UNCHANGED <<profile, folded, printed>>

\* Ok(None): println!("{} is not valid JSON - SKIP", file)
FileInvalid ==
    /\ Visit
    /\ result'.kind = "None"
    /\ printed' = Append(printed, "is not valid JSON - SKIP")
    /\ pc' = "loop"
    /\ UNCHANGED <<profile, folded>>

\* Ok(Some(json)) under `check`: println!("{} is valid JSON", file); continue
FileValid ==
    /\ Visit
    /\ result'.kind = "Some"
    /\ ~should_stat
    /\ printed' = Append(printed, "is valid JSON")
    /\ pc' = "loop"
    /\ UNCHANGED <<profile, folded>>

\* Ok(Some(json)) under `stat`: the value is merged into maybe_stats; a failed
\* assertion of the sniffer ends the process.
FileSniffed ==
    /\ Visit
    /\ result'.kind = "Some"
    /\ should_stat
    /\ printed' = Append(printed, "is valid JSON")
    /\ profile' = <<MergedOrNew(profile, result'.value)>>
    /\ folded' = Append(folded, result'.value)
    /\ pc' = IF profile'[1].panicked THEN "panicked" ELSE "loop"

\* After the loop: print_complex_stats, or "No stat information collected - SKIP".
Report ==
    /\ pc = "loop"
    /\ files = <<>>
    /\ printed' = IF ~should_stat THEN printed
                  ELSE IF profile # <<>> THEN Append(printed, "stats")
                  ELSE Append(printed, "No stat information collected - SKIP")
    /\ pc' = "returned"
    /\ UNCHANGED <<file, frag, result, trackerVars, snifferVars, files, should_stat>>

NextMain ==
    FileUnreadable \/ FilePanics \/ FileInvalid \/ FileValid \/ FileSniffed \/ Report

SpecMain == InitMain /\ [][NextMain]_vars

-----------------------------------------------------------------------------
(* The JSON grammar the parser is specified against: whitespace runs of    *)
(* any length, the literals, numbers, strings with the nine escapes, and   *)
(* arrays and objects of zero or more members.  Grammar<Rule>(s) is        *)
(* [ok, rest, value]: whether a prefix of s is derived by the rule, what   *)
(* follows the longest such prefix, and the tree it denotes.               *)

Whitespace == {" ", "\n", "\r", "\t"}

HexDigits == Digits \cup {"a", "b", "c", "d", "e", "f", "A", "B", "C", "D", "E", "F"}

SimpleEscapes == {QUOTE, BSLASH, "/", "b", "f", "n", "r", "t"}

GOk(rest, value) == [ok |-> TRUE, rest |-> rest, value |-> value]

GFail(s) == [ok |-> FALSE, rest |-> s, value |-> JNull]

StartsWith(s, p) == Len(s) >= Len(p) /\ SubSeq(s, 1, Len(p)) = p

RECURSIVE GrammarSkipWhitespace(_)
GrammarSkipWhitespace(s) ==
    IF s # <<>> /\ Head(s) \in Whitespace THEN GrammarSkipWhitespace(Tail(s)) ELSE s

\* The length of the longest prefix of s made of string symbols, or -1 when a
\* backslash starts no escape.
RECURSIVE GrammarSymbols(_)
GrammarSymbols(s) ==
    IF s = <<>> \/ Head(s) = QUOTE THEN 0
    ELSE IF Head(s) # BSLASH
    THEN LET n == GrammarSymbols(Tail(s)) IN IF n < 0 THEN -1 ELSE n + 1
    ELSE IF Len(s) >= 2 /\ s[2] \in SimpleEscapes
    THEN LET n == GrammarSymbols(Drop(s, 2)) IN IF n < 0 THEN -1 ELSE n + 2
    ELSE IF Len(s) >= 6 /\ s[2] = "u" /\ \A i \in 3..6 : s[i] \in HexDigits
    THEN LET n == GrammarSymbols(Drop(s, 6)) IN IF n < 0 THEN -1 ELSE n + 6
    ELSE -1

GrammarString(s) ==
    IF s = <<>> \/ Head(s) # QUOTE THEN GFail(s)
    ELSE LET n == GrammarSymbols(Tail(s))
         IN  IF n >= 0 /\ Len(s) >= n + 2 /\ s[n + 2] = QUOTE
             THEN GOk(Drop(s, n + 2), JString(SubSeq(s, 2, n + 1)))
             ELSE GFail(s)

\* The length of the longest prefix of s that is a number literal, 0 when none is.
GrammarNumberLen(s) ==
    LET neg  == IF s # <<>> /\ Head(s) = "-" THEN 1 ELSE 0
        a    == Drop(s, neg)
        int  == IF a # <<>> /\ Head(a) = "0" THEN 1
                ELSE IF a # <<>> /\ Head(a) \in NonzeroDigits THEN Len(DigitRun(a))
                ELSE 0
        b    == Drop(a, int)
        fr   == IF b # <<>> /\ Head(b) = "." /\ DigitRun(Tail(b)) # <<>>
                THEN 1 + Len(DigitRun(Tail(b))) ELSE 0
        c    == Drop(b, fr)
        sg   == IF Len(c) >= 2 /\ c[2] \in {"+", "-"} THEN 1 ELSE 0
        ex   == IF c # <<>> /\ Head(c) \in {"e", "E"} /\ DigitRun(Drop(c, 1 + sg)) # <<>>
                THEN 1 + sg + Len(DigitRun(Drop(c, 1 + sg))) ELSE 0
    IN  IF int = 0 THEN 0 ELSE neg + int + fr + ex

GrammarNumber(s) ==
    LET n == GrammarNumberLen(s)
    IN  IF n = 0 THEN GFail(s)
        ELSE GOk(Drop(s, n), JNumber(ParseF64(SubSeq(s, 1, n)).num))

RECURSIVE GrammarValue(_)
RECURSIVE GrammarElements(_, _)
RECURSIVE GrammarMembers(_, _)

\* After '[' and a first element: more elements, each after a ','.
GrammarElements(s, arr) ==
    LET v == GrammarValue(s)
    IN  IF ~v.ok THEN GFail(s)
        ELSE IF v.rest # <<>> /\ Head(v.rest) = ","
        THEN GrammarElements(Tail(v.rest), Append(arr, v.value))
        ELSE GOk(v.rest, JArray(Append(arr, v.value)))

GrammarArray(s) ==
    IF s = <<>> \/ Head(s) # "[" THEN GFail(s)
    ELSE LET inner == GrammarSkipWhitespace(Tail(s))
             elems == IF inner # <<>> /\ Head(inner) = "]" THEN GOk(inner, JArray(<<>>))
                      ELSE GrammarElements(Tail(s), <<>>)
         IN  IF elems.ok /\ elems.rest # <<>> /\ Head(elems.rest) = "]"
             THEN GOk(Tail(elems.rest), elems.value)
             ELSE GFail(s)

GrammarMembers(s, obj) ==
    LET k == GrammarString(GrammarSkipWhitespace(s))
        c == GrammarSkipWhitespace(k.rest)
        v == IF k.ok /\ c # <<>> /\ Head(c) = ":" THEN GrammarValue(Tail(c)) ELSE GFail(s)
    IN  IF ~v.ok THEN GFail(s)
        ELSE IF v.rest # <<>> /\ Head(v.rest) = ","
        THEN GrammarMembers(Tail(v.rest), MapInsert(obj, k.value.s, v.value))
        ELSE GOk(v.rest, JObject(MapInsert(obj, k.value.s, v.value)))

GrammarObject(s) ==
    IF s = <<>> \/ Head(s) # "{" THEN GFail(s)
    ELSE LET inner == GrammarSkipWhitespace(Tail(s))
             membs == IF inner # <<>> /\ Head(inner) = "}" THEN GOk(inner, JObject(EmptyMap))
                      ELSE GrammarMembers(Tail(s), EmptyMap)
         IN  IF membs.ok /\ membs.rest # <<>> /\ Head(membs.rest) = "}"
             THEN GOk(Tail(membs.rest), membs.value)
             ELSE GFail(s)

GrammarValue(s) ==
    LET a == GrammarSkipWhitespace(s)
        v == IF a = <<>> THEN GFail(s)
             ELSE CASE Head(a) = QUOTE -> GrammarString(a)
                    [] Head(a) = "[" -> GrammarArray(a)
                    [] Head(a) = "{" -> GrammarObject(a)
                    [] StartsWith(a, <<"t", "r", "u", "e">>) -> GOk(Drop(a, 4), JTrue)
                    [] StartsWith(a, <<"f", "a", "l", "s", "e">>) -> GOk(Drop(a, 5), JFalse)
                    [] StartsWith(a, <<"n", "u", "l", "l">>) -> GOk(Drop(a, 4), JNull)
                    [] OTHER -> GrammarNumber(a)
    IN  IF v.ok THEN GOk(GrammarSkipWhitespace(v.rest), v.value) ELSE GFail(s)

\* s, all of it, is a JSON value with whitespace around it.
GrammarAccepts(s) == LET v == GrammarValue(s) IN v.ok /\ v.rest = <<>>

GrammarTree(s) == GrammarValue(s).value

-----------------------------------------------------------------------------
(* What a finished call consumed.                                          *)

\* The characters of the content the root rule consumed.
Consumed == SubSeq(file.content, 1, Len(file.content) - Len(frag.frag.stream))

Parsed == pc = "done" /\ file.readable

\* C1: the parse returns a value only when the text it consumed is a
\* grammatical JSON value and the returned tree is that value; a text that is
\* not grammatical up to where parsing stops yields no value.
C1_ValueOnlyForGrammaticalText ==
    (Parsed /\ result.kind = "Some") =>
        /\ GrammarAccepts(Consumed)
        /\ result.value = GrammarTree(Consumed)

\* The text with its whitespace characters outside string literals removed.
RECURSIVE StripWhitespace(_, _)
StripWhitespace(s, inString) ==
    IF s = <<>> THEN <<>>
    ELSE IF inString /\ Head(s) = BSLASH /\ Len(s) >= 2
    THEN <<s[1], s[2]>> \o StripWhitespace(Drop(s, 2), inString)
    ELSE IF Head(s) = QUOTE THEN <<Head(s)>> \o StripWhitespace(Tail(s), ~inString)
    ELSE IF ~inString /\ Head(s) \in Whitespace THEN StripWhitespace(Tail(s), inString)
    ELSE <<Head(s)>> \o StripWhitespace(Tail(s), inString)

ReadableFile(content) == [readable |-> TRUE, content |-> content]

\* C2: a whitespace run of any length is consumed entirely wherever the grammar
\* allows whitespace: a valid JSON value written with whitespace runs before,
\* after or between its tokens parses to the same tree as the same value
\* written without them.
C2_WhitespaceRunsConsumed ==
    (Parsed /\ GrammarAccepts(file.content)) =>
        result = single_json(ReadableFile(StripWhitespace(file.content, FALSE)))

\* C3: "[]" parses to an Array of zero elements and "{}" to an Object of zero
\* keys, also nested as an element (or as a member value).
C3_EmptyArrayAndObjectAccepted ==
    Parsed =>
        /\ file.content = <<"[", "]">> => result = Some(JArray(<<>>))
        /\ file.content = <<"{", "}">> => result = Some(JObject(EmptyMap))
        /\ file.content = <<"[", "[", "]", "]">> => result = Some(JArray(<<JArray(<<>>)>>))
        /\ file.content = <<"[", "{", "}", "]">> => result = Some(JArray(<<JObject(EmptyMap)>>))
        /\ file.content = <<"{", QUOTE, "a", QUOTE, ":", "[", "]", "}">>
               => result = Some(JObject(MapInsert(EmptyMap, <<"a">>, JArray(<<>>))))

\* <<row, column>> of the cursor after the characters s, from row 0, column 0:
\* a newline starts the next row at column 0, another character adds a column.
RECURSIVE PositionAfter(_, _, _)
PositionAfter(s, row, col) ==
    IF s = <<>> THEN <<row, col>>
    ELSE IF Head(s) = "\n" THEN PositionAfter(Tail(s), row + 1, 0)
    ELSE PositionAfter(Tail(s), row, col + 1)

\* C4: when a document's text fails to parse, the result is a ParseError whose
\* row and column are the cursor's position at the point of failure ("{" fails
\* at end of input, row 0 column 1).
C4_ParseFailureIsPositionedError ==
    (Parsed /\ frag.st = "Err") =>
        /\ result.kind = "ParseError"
        /\ <<result.row, result.col>> = PositionAfter(Consumed, 0, 0)

\* C5: a string literal made of ASCII characters and the escapes \" \\ \/ \b \f
\* \n \r \t and \u with four hex digits parses to a String whose content runs
\* up to the literal's closing quote.
C5_EscapesAcceptedInStrings ==
    (/\ Parsed
     /\ file.content # <<>>
     /\ Head(file.content) = QUOTE
     /\ \A i \in 1..Len(file.content) : len_utf8(file.content[i]) = 1
     /\ GrammarAccepts(file.content)) =>
        result = Some(JString(SubSeq(file.content, 2, Len(file.content) - 1)))

NumberChars == Digits \cup {"-", "+", ".", "e", "E"}

\* C10: every span the number rule accepts as a Number is a literal of the
\* number grammar (here the rule starts at the document's first character, the
\* document holding only characters of numbers).
C10_AcceptedNumbersMatchGrammar ==
    (/\ Parsed
     /\ \A i \in 1..Len(file.content) : file.content[i] \in NumberChars
     /\ result.kind = "Some"
     /\ result.value.t = "NUMBER") =>
        GrammarNumberLen(Consumed) = Len(Consumed)

-----------------------------------------------------------------------------
(* What the tracker retains.                                               *)

HeapEntries(h) == {h[i] : i \in DOMAIN h}

SmallestOf(S, k) == {x \in S : Cardinality({y \in S : y < x}) < k}

LargestOf(S, k) == {x \in S : Cardinality({y \in S : y > x}) < k}

\* C6: after more than 10 distinct numbers were fed to the tracker of limit 10,
\* in any order, the minima heap holds exactly the 10 smallest of the numbers
\* fed and the maxima heap exactly the 10 largest.
C6_HeapsHoldTenExtremes ==
    Cardinality(fed) > NumbersLimit =>
        /\ HeapEntries(numbers.minimums) = {Num(n) : n \in SmallestOf(fed, NumbersLimit)}
        /\ HeapEntries(numbers.maximums) = {Num(n) : n \in LargestOf(fed, NumbersLimit)}

-----------------------------------------------------------------------------
(* What the aggregate holds after a merge.                                 *)

RECURSIVE Concatenation(_)
Concatenation(arrays) ==
    IF arrays = <<>> THEN <<>> ELSE Head(arrays).a \o Concatenation(Tail(arrays))

Merged == Len(folded) >= 2

LastFolded == folded[Len(folded)]

\* C7: a profile built from one array with from_json and further arrays folded
\* in with merge_stats has the valueTypes, the number count and the string set
\* of from_json applied to the concatenation of the arrays.
C7_ArrayMergeEqualsConcatenation ==
    (Merged /\ \A i \in DOMAIN folded : is_array_type(folded[i])) =>
        LET whole == from_json(JArray(Concatenation(folded)))
        IN  /\ profile[1].values_types = whole.values_types
            /\ profile[1].numbers.number = whole.numbers.number
            /\ profile[1].strings = whole.strings

\* C8: merging an Object value into an array-shaped profile, or an Array value
\* into an object-shaped profile, aborts; it never returns an updated profile.
C8_MismatchedShapeAborts ==
    (/\ Merged
     /\ \/ stats_is_array_type(before[1]) /\ is_object_type(LastFolded)
        \/ stats_is_object_type(before[1]) /\ is_array_type(LastFolded)) =>
        profile[1].panicked

KeysPresent(stats) ==
    DOMAIN stats.type_stats.primitives_keys \cup DOMAIN stats.type_stats.complex_stats

\* C9: when an object is merged into an object-shaped profile, each of its keys
\* is flagged nonobligatory if and only if the key was present in the aggregate
\* before the merge, in the primitive-type map or in the complex sub-profile
\* map, whatever the kind of the newly merged value.
C9_RecurringKeysFlagged ==
    (Merged /\ stats_is_object_type(before[1]) /\ is_object_type(LastFolded)) =>
        \A k \in DOMAIN LastFolded.m :
            k \in profile[1].type_stats.nonobligatory <=> k \in KeysPresent(before[1])

-----------------------------------------------------------------------------
(* What a run of main visits.                                              *)

RunEnded == pc \in {"returned", "failed", "panicked"}

\* C11: in a multi-file run, a file that cannot be read is reported and then
\* skipped like a file that fails to parse: the loop goes on, every later file
\* is still read, and the run reaches its final report.
C11_UnreadableFileSkipped ==
    ~file.readable =>
        /\ pc \in {"loop", "returned"}
        /\ RunEnded => files = <<>>

Printed(line) == \E i \in DOMAIN printed : printed[i] = line

\* C12: in a stat run over several files, a document that fails to parse leaves
\* the running aggregate as it was before that document, and the documents
\* after it are still parsed and merged: the run ends only once every file was
\* visited.
C12_FailedDocumentExcluded ==
    should_stat =>
        /\ (file.readable /\ frag.st = "Err") => profile = before
        /\ (Printed("is not valid JSON - SKIP") /\ RunEnded) => files = <<>>

-----------------------------------------------------------------------------
(* What a returned tree is made of.                                        *)

RECURSIVE HasKeyValue(_)
HasKeyValue(v) ==
    CASE v.t = "KEYVALUE" -> TRUE
      [] v.t = "ARRAY" -> \E i \in DOMAIN v.a : HasKeyValue(v.a[i])
      [] v.t = "OBJECT" -> \E k \in DOMAIN v.m : HasKeyValue(v.m[k])
      [] OTHER -> FALSE

\* C13: no value returned by a successful parse contains the KEYVALUE variant
\* at any depth, on every success path, those that continue after a failed
\* member included.
C13_NoKeyValueInParsedValue ==
    (Parsed /\ result.kind = "Some") => ~HasKeyValue(result.value)

\* C13 witness: {"a":1,} is parsed; the member after the comma fails and the
\* object rule goes on with the members it has.
C13_ObjectParsedAfterFailedMember ==
    /\ Parsed
    /\ file.content = <<"{", QUOTE, "a", QUOTE, ":", "1", ",", "}">>
    /\ result = Some(JObject(MapInsert(EmptyMap, <<"a">>, JNumber(Num(1)))))

-----------------------------------------------------------------------------
(* Number literals.                                                        *)

\* The document is one literal of the number grammar and nothing else.
IsNumberLiteral(s) ==
    /\ s # <<>>
    /\ \A i \in 1..Len(s) : s[i] \in NumberChars
    /\ GrammarNumberLen(s) = Len(s)

\* C14: for every literal of the number grammar at the start of a fresh parse,
\* the number rule consumes the whole literal, the raw text it hands to the
\* float parser is the literal's characters, and the result is one Number built
\* from the entire literal with no character left unconsumed.
C14_NumberLiteralWhollyCaptured ==
    (Parsed /\ IsNumberLiteral(file.content)) =>
        /\ frag.st = "Ok"
        /\ frag.frag.stream = <<>>
        /\ fraction_and_exponent(accept_integer(RootFragment(file.content))).frag.raw
               = file.content
        /\ result = Some(JNumber(ParseF64(file.content).num))

\* C14 witness: 0.1e-05 is parsed to the Number 1e-6.
C14_SmallExponentLiteralParsed ==
    /\ Parsed
    /\ file.content = <<"0", ".", "1", "e", "-", "0", "5">>
    /\ result = Some(JNumber(F64Fin(1, -6)))

-----------------------------------------------------------------------------
(* String literals.                                                        *)

\* The document is one well-formed string literal and nothing else.
IsStringLiteral(s) == GrammarString(s).ok /\ GrammarString(s).rest = <<>>

\* C15: for a well-formed string literal, the content of the resulting String
\* is exactly the source characters between the opening and the closing quote,
\* escape sequences kept as their source characters.
C15_StringContentIsSourceText ==
    (/\ Parsed
     /\ IsStringLiteral(file.content)
     /\ result.kind = "Some"
     /\ result.value.t = "STRING") =>
        result.value.s = SubSeq(file.content, 2, Len(file.content) - 1)

-----------------------------------------------------------------------------
(* The alternatives of the value rule.                                     *)

\* The fragment the first alternative of accept_value is entered with.
ValueEntry == accept_whitespace(RootFragment(file.content)).frag

\* A failed rule hands on the fragment it was entered with.
FailsUnchanged(entry, r) ==
    r.st = "Err" => r.frag.stream = entry.stream /\ r.frag.raw = entry.raw

\* C16: whenever a rule acceptor (string, number, object, array, true, false,
\* null) fails, the fragment passed on to the next alternative has the same
\* remaining text and the same capture buffer as at that rule's entry.
C16_FailedAlternativeRestoresCursor ==
    Parsed =>
        /\ FailsUnchanged(ValueEntry, accept_string(ValueEntry))
        /\ FailsUnchanged(ValueEntry, accept_number(ValueEntry))
        /\ FailsUnchanged(ValueEntry, accept_object(ValueEntry))
        /\ FailsUnchanged(ValueEntry, accept_array(ValueEntry))
        /\ FailsUnchanged(ValueEntry, accept_true(ValueEntry))
        /\ FailsUnchanged(ValueEntry, accept_false(ValueEntry))
        /\ FailsUnchanged(ValueEntry, accept_null(ValueEntry))

-----------------------------------------------------------------------------
(* The accept primitive on the characters of a document.                   *)

\* The fragment at character i of the document, nothing captured.
FragmentAt(i) == JsonFragment(SubSeq(file.content, i, Len(file.content)), <<>>, JNull)

\* C17: for every expected character, one of several bytes included, a
\* successful accept removes exactly that character from the front of the
\* remaining text and returns normally; on a mismatch or at the end of the
\* input it fails and leaves the remaining text and the capture buffer unchanged.
C17_AcceptAdvancesOneCharacter ==
    Parsed =>
        /\ result.kind # "Panic"
        /\ \A i \in 1..Len(file.content) :
               /\ accept(FragmentAt(i), file.content[i])
                      = Ok(JsonFragment(FragmentAt(i + 1).stream, <<file.content[i]>>, JNull))
               /\ \A j \in 1..Len(file.content) :
                      file.content[j] # file.content[i] =>
                          accept(FragmentAt(i), file.content[j]) = Err(FragmentAt(i))
        /\ accept(FragmentAt(Len(file.content) + 1), "x")
               = Err(FragmentAt(Len(file.content) + 1))

-----------------------------------------------------------------------------
(* Numbers on their way to the tracker.                                    *)

RECURSIVE HasNaN(_)
HasNaN(v) ==
    CASE v.t = "NUMBER" -> v.num.k = "nan"
      [] v.t = "ARRAY" -> \E i \in DOMAIN v.a : HasNaN(v.a[i])
      [] v.t = "OBJECT" -> \E k \in DOMAIN v.m : HasNaN(v.m[k])
      [] OTHER -> FALSE

\* C18: every Number the parser returns is built from characters the number
\* rule itself consumed, so it is never NaN, and the NaN assertion of the
\* extremes tracker never fails when the parsed value is passed to from_json or
\* merge_stats.
C18_NoNaNReachesTracker ==
    /\ result.kind = "Some" => ~HasNaN(result.value)
    /\ profile # <<>> => ~profile[1].panicked

-----------------------------------------------------------------------------
(* The sizes of the tracker's heaps.                                       *)

\* C19: after n add calls on a tracker of limit 10, the minima heap and the
\* maxima heap each hold exactly min(n, 10) entries and the count field is n.
C19_HeapsCappedAndCounted ==
    /\ Len(numbers.minimums) = MinInt(Cardinality(fed), NumbersLimit)
    /\ Len(numbers.maximums) = MinInt(Cardinality(fed), NumbersLimit)
    /\ numbers.number = Cardinality(fed)

\* C19 witness: more numbers than the limit were added and each heap holds 10.
C19_MoreThanLimitAdded ==
    /\ Cardinality(fed) > NumbersLimit
    /\ Len(numbers.minimums) = NumbersLimit
    /\ Len(numbers.maximums) = NumbersLimit
    /\ numbers.number = Cardinality(fed)

-----------------------------------------------------------------------------
(* The two sub-profiles of an array-shaped profile.                        *)

Front(a) == SubSeq(a, 1, Len(a) - 1)

\* The profile after the elements a were folded the way the last value was:
\* by from_json for the first value, by merge_stats into `before` later.
Folding(a) ==
    IF Len(folded) = 1 THEN from_json(JArray(a)) ELSE merge_stats(before[1], JArray(a))

\* An array of at least one element was folded into an array-shaped profile.
ArrayFolded ==
    /\ folded # <<>>
    /\ is_array_type(LastFolded)
    /\ LastFolded.a # <<>>
    /\ Len(folded) = 1 \/ stats_is_array_type(before[1])

LastElement == LastFolded.a[Len(LastFolded.a)]

-----------------------------------------------------------------------------
(* Termination of the parse: the text left at each recursive call.         *)

\* The rule invoked on the text from position i on, with the capture buffer
\* raw and the value under construction value.
Invoked(i, raw, value) ==
    JsonFragment(SubSeq(file.content, i, Len(file.content)), raw, value)

\* A failed alternative can leave what it captured in the buffer of the next
\* one: a rule starts with an empty buffer or with the text read so far.
Captures(i) == {<<>>, SubSeq(file.content, 1, i - 1)}

\* r is the Result whose Ok fragment a rule invoked on f hands to its recursive
\* call: the call is made on a strictly shorter text.
Shorter(r, f) == r.st = "Ok" => Len(r.frag.stream) < Len(f.stream)

\* accept_digits recurses on the fragment of accept_digit (parser.rs 150-154).
DigitsRecursionConsumes(f) == Shorter(accept_digit(f), f)

\* accept_symbols recurses on the fragment of accept_symbol (331-332).
SymbolsRecursionConsumes(f) == Shorter(accept_symbol(f), f)

\* accept_values recurses after accept_value and the delimiter ',' (205-215).
ValuesRecursionConsumes(f) ==
    Shorter(and_then_accept_delimiter(accept_value(f), ","), f)

\* accept_key_values recurses after accept_key_value and the delimiter ',' (259-271).
KeyValuesRecursionConsumes(f) ==
    Shorter(and_then_accept_delimiter(accept_key_value(f), ","), f)

\* accept_value reaches itself through accept_array and accept_object, after
\* the delimiter '[' or '{' (222-224, 279-281).
NestedValueConsumes(f) ==
    /\ Shorter(accept_delimiter(f, "["), f)
    /\ Shorter(accept_delimiter(f, "{"), f)

RecursionsConsume ==
    \A i \in 1..(Len(file.content) + 1) : \A raw \in Captures(i) :
        /\ DigitsRecursionConsumes(Invoked(i, raw, JNull))
        /\ SymbolsRecursionConsumes(Invoked(i, raw, JNull))
        /\ ValuesRecursionConsumes(Invoked(i, raw, JArray(<<>>)))
        /\ KeyValuesRecursionConsumes(Invoked(i, raw, JObject(EmptyMap)))
        /\ NestedValueConsumes(Invoked(i, raw, JNull))

\* C21: for every document text the parse ends with a value or with a failure,
\* and every self-recursive rule (digit runs, string symbols, array values,
\* object members, nested values) makes its recursive call on a strictly
\* shorter remaining text.
C21_ParseEndsWithValueOrFailure ==
    Parsed =>
        /\ frag.st \in {"Ok", "Err"}
        /\ result.kind \in {"Some", "None"}
        /\ RecursionsConsume

====
